---- MODULE Spec2Model ----
(***************************************************************************)
(* A model of sapf-as-plain-text: the process bridge (run_sapf, the        *)
(* background reader thread, send_to_sapf, update_output) and the line     *)
(* and completion editing operations of SapfAsPlainText (src/src/app.rs).  *)
(*                                                                         *)
(* Text is modelled as a sequence of one-character strings, so that        *)
(* trimming, line splitting and byte scanning are computed, not assumed.   *)
(***************************************************************************)
EXTENDS Integers, Sequences, FiniteSets, TLC

VARIABLES
    mainPc,             \* position of the UI thread: new, starting, frame, polling, keys, exited, aborted
    readerPc,           \* position of the reader thread: none, read, send, done
    readerExit,         \* which break ended the reader loop: none, eof, error, send_failed
    trimmed,            \* the reader's local `trimmed`
    linesRead,          \* number of read_line calls that returned data
    channel,            \* the mpsc queue between output_sender and output_receiver
    receiverAlive,      \* the Receiver has not been dropped
    published,          \* every line output_sender.send accepted, in order
    from_sapf,          \* the display log
    from_sapf_receiver, \* Option<Receiver<String>>: "None" or "Some"
    pty_writer,         \* Option<Box<dyn Write>>: "None" or "Some"
    written,            \* the lines handed to the pty writer, in order
    report,             \* what the last send_to_sapf call printed
    sendCalls,          \* number of send_to_sapf calls so far
    writeAttempts,      \* number of writeln! attempts so far
    buffers,            \* Vec<Buffer>, each [content, cursor_pos]
    current_buffer_idx, \* index into buffers (0-based, as in the source)
    op,                 \* the last editing operation applied to the buffer
    before,             \* the current buffer as it was when that operation was called
    arg,                \* the argument of that operation
    result,             \* what that operation returned
    pollDepth,          \* queue depth when the running update_output call began
    pollRemoved,        \* lines that call has taken from the queue so far
    categories,         \* SapfDictionary::categories: name -> [description, items]
    all_keywords,       \* SapfDictionary::all_keywords: key -> documentation
    completions,        \* Vec<CompletionItem>, each [label, documentation]
    show_completions,   \* whether the completion popup is shown
    hover_info          \* Option<String>

vars == << mainPc, readerPc, readerExit, trimmed, linesRead, channel, receiverAlive,
           published, from_sapf, from_sapf_receiver, pty_writer, written, report,
           sendCalls, writeAttempts, buffers, current_buffer_idx, op, before, arg, result,
           pollDepth, pollRemoved, categories, all_keywords, completions,
           show_completions, hover_info >>

bridgeVars == << mainPc, readerPc, readerExit, trimmed, linesRead, channel, receiverAlive,
                 published, from_sapf, from_sapf_receiver, pty_writer, written, report,
                 sendCalls, writeAttempts, pollDepth, pollRemoved >>

pollVars == << pollDepth, pollRemoved >>

dictVars == << categories, all_keywords, completions, show_completions, hover_info >>

editVars == << buffers, current_buffer_idx, op, before, arg, result >>

(***************************************************************************)
(* Bounds                                                                  *)
(***************************************************************************)
MaxLines == 2
MaxSends == 2
MaxLen == 3
MaxOver == 2
MaxContent == 6
MaxBuffers == 3

(***************************************************************************)
(* Text helpers                                                            *)
(***************************************************************************)
NL == "\n"
CR == "\r"

IsWhitespace(c) == c \in {" ", "\t", NL, CR}

RECURSIVE TrimEnd(_)
TrimEnd(s) ==
    IF s = << >> THEN s
    ELSE IF IsWhitespace(s[Len(s)]) THEN TrimEnd(SubSeq(s, 1, Len(s) - 1))
    ELSE s

RECURSIVE TrimStart(_)
TrimStart(s) ==
    IF s = << >> THEN s
    ELSE IF IsWhitespace(s[1]) THEN TrimStart(Tail(s))
    ELSE s

Trim(s) == TrimStart(TrimEnd(s))

\* index of the first "\n" of s, 0 when there is none
FirstNL(s) ==
    IF \E i \in 1..Len(s) : s[i] = NL
    THEN CHOOSE i \in 1..Len(s) : s[i] = NL /\ \A j \in 1..(i - 1) : s[j] # NL
    ELSE 0

\* the display log cut at its newlines: one entry per "\n"-terminated piece
RECURSIVE LogLines(_)
LogLines(s) ==
    IF s = << >> THEN << >>
    ELSE LET i == FirstNL(s) IN
         IF i = 0 THEN << s >>
         ELSE << SubSeq(s, 1, i - 1) >> \o LogLines(SubSeq(s, i + 1, Len(s)))

IsPrefix(s, t) == Len(s) <= Len(t) /\ SubSeq(t, 1, Len(s)) = s

(***************************************************************************)
(* Lexing and line extraction                                              *)
(***************************************************************************)
\* the ASCII letters and digits that occur in the modelled texts
AlnumChars == {"a", "b", "c", "e", "f", "i", "n", "o", "r", "s", "t", "p", "0"}

IsAsciiAlphanumeric(c) == c \in AlnumChars

is_word_char(c) == IsAsciiAlphanumeric(c) \/ c = "_"

None == [tag |-> "None", val |-> << >>]
Some(v) == [tag |-> "Some", val |-> v]

\* str::lines: cut at "\n", drop the "\n" and a "\r" just before it; the text
\* after the last "\n" is a line only when it is not empty
RECURSIVE Lines(_)
Lines(s) ==
    IF s = << >> THEN << >>
    ELSE LET i == FirstNL(s) IN
         IF i = 0 THEN << s >>
         ELSE LET piece == SubSeq(s, 1, i - 1)
                  line == IF piece # << >> /\ piece[Len(piece)] = CR
                          THEN SubSeq(piece, 1, Len(piece) - 1)
                          ELSE piece
              IN << line >> \o Lines(SubSeq(s, i + 1, Len(s)))

\* the inclusion test of get_current_line
InclusionStrict(cursor_pos, char_count, line_end) ==
    cursor_pos >= char_count /\ cursor_pos <= line_end

Inclusion(cursor_pos, char_count, line_end) ==
    cursor_pos >= char_count /\ cursor_pos <= line_end + 1

\* the for loop of get_current_line: the index of the line it returns, 0 when
\* the loop ends without returning
RECURSIVE ScanLines(_, _, _, _)
ScanLines(lines, i, char_count, cursor_pos) ==
    IF i > Len(lines) THEN 0
    ELSE LET line_end == char_count + Len(lines[i]) IN
         IF Inclusion(cursor_pos, char_count, line_end) THEN i
         ELSE ScanLines(lines, i + 1, line_end + 1, cursor_pos)

FirstNonBlank(lines) ==
    LET nb == { j \in 1..Len(lines) : Trim(lines[j]) # << >> } IN
    IF nb = {} THEN << >>
    ELSE lines[CHOOSE j \in nb : \A k \in nb : j <= k]

FallbackFirst(lines) ==
    IF lines # << >> THEN lines[1] ELSE FirstNonBlank(lines)

Fallback(lines) ==
    IF lines # << >> THEN lines[Len(lines)] ELSE FirstNonBlank(lines)

get_current_line(buf) ==
    LET lines == Lines(buf.content)
        i == ScanLines(lines, 1, 0, buf.cursor_pos)
    IN IF i > 0 THEN lines[i] ELSE Fallback(lines)

\* the backward scan of get_current_word_for_completion: `start` counts
\* bytes, so bytes[start - 1] of the source is bytes[start] here
WordBoundaryAtDot(c) == ~is_word_char(c)

WordBoundary(c) == ~is_word_char(c) /\ c # "."

RECURSIVE ScanBack(_, _)
ScanBack(bytes, start) ==
    IF start > 0 /\ ~WordBoundary(bytes[start])
    THEN ScanBack(bytes, start - 1)
    ELSE start

get_current_word_for_completion(text, cursor_pos) ==
    IF cursor_pos > Len(text) THEN None
    ELSE LET start == ScanBack(text, cursor_pos) IN
         IF start < cursor_pos THEN Some(SubSeq(text, start + 1, cursor_pos))
         ELSE None

\* the two scans of get_word_at_cursor: bytes[start - 1] and bytes[end] of the
\* source are bytes[start] and bytes[end + 1] here
RECURSIVE WordStart(_, _)
WordStart(bytes, start) ==
    IF start > 0 /\ is_word_char(bytes[start])
    THEN WordStart(bytes, start - 1)
    ELSE start

RECURSIVE WordEnd(_, _)
WordEnd(bytes, end) ==
    IF end < Len(bytes) /\ is_word_char(bytes[end + 1])
    THEN WordEnd(bytes, end + 1)
    ELSE end

\* get_word_at_cursor without its forward scan
WordBeforeCursorOnly(text, cursor_pos) ==
    IF cursor_pos > Len(text) THEN None
    ELSE LET start == WordStart(text, cursor_pos) IN
         IF start < cursor_pos
         THEN Some(<< SubSeq(text, start + 1, cursor_pos), start, cursor_pos >>)
         ELSE None

\* Some((word, start, end)) is Some(<< word, start, end >>)
get_word_at_cursor(text, cursor_pos) ==
    IF cursor_pos > Len(text) THEN None
    ELSE LET start == WordStart(text, cursor_pos)
             end == WordEnd(text, cursor_pos)
         IN IF start < end
            THEN Some(<< SubSeq(text, start + 1, end), start, end >>)
            ELSE None

\* the backward scan of apply_completion
ApplyBoundaryNoDot(c) == ~IsAsciiAlphanumeric(c) /\ c # "_"

ApplyBoundaryNoUnderscore(c) == ~IsAsciiAlphanumeric(c) /\ c # "."

ApplyBoundary(c) == ~IsAsciiAlphanumeric(c) /\ c # "_" /\ c # "."

RECURSIVE ApplyScan(_, _)
ApplyScan(bytes, word_start) ==
    IF word_start > 0 /\ ~ApplyBoundary(bytes[word_start])
    THEN ApplyScan(bytes, word_start - 1)
    ELSE word_start

\* apply_completion has no bounds check: bytes[word_start - 1] is out of
\* bounds when the cursor is past the end of the text, and the call panics
ApplyPanics(buf) == buf.cursor_pos > Len(buf.content)

apply_completion(buf, completion) ==
    LET word_start == ApplyScan(buf.content, buf.cursor_pos) IN
    [ content |-> SubSeq(buf.content, 1, word_start) \o completion
                    \o SubSeq(buf.content, buf.cursor_pos + 1, Len(buf.content)),
      cursor_pos |-> word_start + Len(completion) ]

get_current_buffer == buffers[current_buffer_idx + 1]

(***************************************************************************)
(* The symbol dictionary                                                   *)
(***************************************************************************)
StartsWith(s, prefix) == IsPrefix(prefix, s)

\* index of the first '.' of s, 0 when there is none
FirstDot(s) ==
    IF \E i \in 1..Len(s) : s[i] = "."
    THEN CHOOSE i \in 1..Len(s) : s[i] = "." /\ \A j \in 1..(i - 1) : s[j] # "."
    ELSE 0

\* the orders in which a HashMap may hand out the keys S
Orders(S) ==
    { o \in [1..Cardinality(S) -> S] : \A i, j \in 1..Cardinality(S) : o[i] = o[j] => i = j }

Osc == << "o", "s", "c" >>
Sine == << "s", "i", "n", "e" >>
NameA == << "a" >>
NameAB == << "a", "b" >>
KeyBdotC == << "b", ".", "c" >>
KeyA_ == << "a", "_" >>

\* the embedded table of section 8: one category with one item
TableOsc ==
    (Osc :> [ description |-> << "oscillators" >>,
              items |-> (Sine :> << "sine generator" >>) ])

\* two categories; the name of one is a prefix of the other's and is also an
\* item key of the other
TableTwo ==
    (NameA :> [ description |-> << "category a" >>,
                items |-> (NameAB :> << "item ab" >>) @@ (KeyBdotC :> << "item b.c" >>) ])
    @@ (NameAB :> [ description |-> << "category ab" >>,
                    items |-> (KeyA_ :> << "item a_" >>) ])

TableEmpty == << >>

\* load_categories: the tables VALUES_JSON may hold, with every symbol in one
\* category only
Tables == { TableOsc, TableTwo, TableEmpty }

\* the loop body of build_all_keywords for one category: insert overwrites
InsertDescription(acc, category) ==
    [ k \in DOMAIN acc \cup DOMAIN category.items |->
        IF k \in DOMAIN category.items THEN category.description ELSE acc[k] ]

InsertItems(acc, category) ==
    [ k \in DOMAIN acc \cup DOMAIN category.items |->
        IF k \in DOMAIN category.items THEN category.items[k] ELSE acc[k] ]

\* build_all_keywords, the categories visited in `order`
RECURSIVE build_all_keywords(_, _)
build_all_keywords(cats, order) ==
    IF order = << >> THEN << >>
    ELSE InsertItems(build_all_keywords(cats, SubSeq(order, 1, Len(order) - 1)),
                     cats[order[Len(order)]])

Item(label, documentation) == [label |-> label, documentation |-> documentation]

CategoryLabel(name) == name \o << "." >>

CategoryMatchesAll(name, current_input) == TRUE

CategoryMatches(name, current_input) == StartsWith(name, current_input)

KeywordMatches(k, current_input) == StartsWith(k, current_input)

ItemMatches(k, item_prefix) == StartsWith(k, Trim(item_prefix))

\* the branch of get_completions for an input holding a '.'
QualifiedFromAllKeywords(cats, keywords, current_input, keyOrder) ==
    LET d == FirstDot(current_input)
        item_prefix == SubSeq(current_input, d + 1, Len(current_input))
        Keep(k) == ItemMatches(k, item_prefix)
        kept == SelectSeq(keyOrder, Keep)
    IN [ i \in 1..Len(kept) |-> Item(kept[i], keywords[kept[i]]) ]

QualifiedCompletions(cats, keywords, current_input, keyOrder) ==
    LET d == FirstDot(current_input)
        category_prefix == SubSeq(current_input, 1, d - 1)
        item_prefix == SubSeq(current_input, d + 1, Len(current_input))
    IN IF category_prefix \in DOMAIN cats
       THEN LET items == cats[category_prefix].items
                Keep(k) == k \in DOMAIN items /\ ItemMatches(k, item_prefix)
                kept == SelectSeq(keyOrder, Keep)
            IN [ i \in 1..Len(kept) |-> Item(kept[i], items[kept[i]]) ]
       ELSE << >>

\* the branch of get_completions for an input without '.'
UnqualifiedKeywordsFirst(cats, keywords, current_input, catOrder, keyOrder) ==
    LET KeepCat(name) == CategoryMatches(name, current_input)
        KeepKey(k) == KeywordMatches(k, current_input)
        keptCats == SelectSeq(catOrder, KeepCat)
        keptKeys == SelectSeq(keyOrder, KeepKey)
    IN [ i \in 1..Len(keptKeys) |-> Item(keptKeys[i], keywords[keptKeys[i]]) ]
       \o [ i \in 1..Len(keptCats) |->
              Item(CategoryLabel(keptCats[i]), cats[keptCats[i]].description) ]

UnqualifiedCompletions(cats, keywords, current_input, catOrder, keyOrder) ==
    LET KeepCat(name) == CategoryMatches(name, current_input)
        KeepKey(k) == KeywordMatches(k, current_input)
        keptCats == SelectSeq(catOrder, KeepCat)
        keptKeys == SelectSeq(keyOrder, KeepKey)
    IN [ i \in 1..Len(keptCats) |->
           Item(CategoryLabel(keptCats[i]), cats[keptCats[i]].description) ]
       \o [ i \in 1..Len(keptKeys) |-> Item(keptKeys[i], keywords[keptKeys[i]]) ]

\* get_completions, the two maps iterated in catOrder and keyOrder
get_completions(cats, keywords, current_input, catOrder, keyOrder) ==
    IF FirstDot(current_input) # 0
    THEN QualifiedCompletions(cats, keywords, current_input, keyOrder)
    ELSE UnqualifiedCompletions(cats, keywords, current_input, catOrder, keyOrder)

HoverKeywordsFirst(cats, keywords, word) ==
    IF word \in DOMAIN keywords THEN Some(keywords[word])
    ELSE IF word \in DOMAIN cats THEN Some(cats[word].description)
    ELSE None

HoverCategoriesOnly(cats, keywords, word) ==
    IF word \in DOMAIN cats THEN Some(cats[word].description)
    ELSE None

\* get_hover_info: the categories are looked up first, then all_keywords
get_hover_info(cats, keywords, word) ==
    IF word \in DOMAIN cats THEN Some(cats[word].description)
    ELSE IF word \in DOMAIN keywords THEN Some(keywords[word])
    ELSE None

(***************************************************************************)
(* The process bridge                                                      *)
(***************************************************************************)
\* what read_line can hand to the reader: a line with its terminator, or the
\* unterminated tail of the stream
RawLines ==
    { << "a", NL >>, << " ", "b", " ", CR, NL >>, << " ", NL >>, << NL >>, << "a", "b" >> }

Stop == << "s", "t", "o", "p" >>

\* run_sapf up to thread::spawn: the pty is open, the child runs, the reader starts
RunSapfSpawn ==
    /\ mainPc = "new"
    /\ mainPc' = "starting"
    /\ readerPc' = "read"
    /\ UNCHANGED << readerExit, trimmed, linesRead, channel, receiverAlive, published,
                    from_sapf, from_sapf_receiver, pty_writer, written, report,
                    sendCalls, writeAttempts >>
    /\ UNCHANGED pollVars
    /\ UNCHANGED editVars
    /\ UNCHANGED dictVars

\* run_sapf after the spawn: the handles are stored, the settling sleep ends
RunSapfReturn ==
    /\ mainPc = "starting"
    /\ mainPc' = "frame"
    /\ pty_writer' = "Some"
    /\ from_sapf_receiver' = "Some"
    /\ UNCHANGED << readerPc, readerExit, trimmed, linesRead, channel, receiverAlive,
                    published, from_sapf, written, report, sendCalls, writeAttempts >>
    /\ UNCHANGED pollVars
    /\ UNCHANGED editVars
    /\ UNCHANGED dictVars

\* openpty / spawn_command / try_clone_reader / take_writer unwrap on an Err
RunSapfFatal ==
    /\ mainPc = "new"
    /\ mainPc' = "aborted"
    /\ UNCHANGED << readerPc, readerExit, trimmed, linesRead, channel, receiverAlive,
                    published, from_sapf, from_sapf_receiver, pty_writer, written,
                    report, sendCalls, writeAttempts >>
    /\ UNCHANGED pollVars
    /\ UNCHANGED editVars
    /\ UNCHANGED dictVars

\* read_line returned Ok(n), n > 0, and the line is sent whatever it holds
ReaderReadLineSendsBlank(raw) ==
    /\ readerPc = "read"
    /\ linesRead < MaxLines
    /\ linesRead' = linesRead + 1
    /\ trimmed' = TrimEnd(raw)
    /\ readerPc' = "send"
    /\ UNCHANGED << mainPc, readerExit, channel, receiverAlive, published, from_sapf,
                    from_sapf_receiver, pty_writer, written, report, sendCalls,
                    writeAttempts >>
    /\ UNCHANGED pollVars
    /\ UNCHANGED editVars
    /\ UNCHANGED dictVars

\* read_line returned Ok(n), n > 0
ReaderReadLine(raw) ==
    /\ readerPc = "read"
    /\ linesRead < MaxLines
    /\ linesRead' = linesRead + 1
    /\ trimmed' = TrimEnd(raw)
    /\ readerPc' = IF TrimEnd(raw) # << >> THEN "send" ELSE "read"
    /\ UNCHANGED << mainPc, readerExit, channel, receiverAlive, published, from_sapf,
                    from_sapf_receiver, pty_writer, written, report, sendCalls,
                    writeAttempts >>
    /\ UNCHANGED pollVars
    /\ UNCHANGED editVars
    /\ UNCHANGED dictVars

\* Ok(0) noted, but the loop goes on reading
ReaderEofContinues ==
    /\ readerPc = "read"
    /\ readerPc' = "read"
    /\ readerExit' = "eof"
    /\ UNCHANGED << mainPc, trimmed, linesRead, channel, receiverAlive, published,
                    from_sapf, from_sapf_receiver, pty_writer, written, report,
                    sendCalls, writeAttempts >>
    /\ UNCHANGED pollVars
    /\ UNCHANGED editVars
    /\ UNCHANGED dictVars

\* read_line returned Ok(0): break
ReaderEof ==
    /\ readerPc = "read"
    /\ readerPc' = "done"
    /\ readerExit' = "eof"
    /\ UNCHANGED << mainPc, trimmed, linesRead, channel, receiverAlive, published,
                    from_sapf, from_sapf_receiver, pty_writer, written, report,
                    sendCalls, writeAttempts >>
    /\ UNCHANGED pollVars
    /\ UNCHANGED editVars
    /\ UNCHANGED dictVars

\* read_line returned Err(e): break
ReaderErr ==
    /\ readerPc = "read"
    /\ readerPc' = "done"
    /\ readerExit' = "error"
    /\ UNCHANGED << mainPc, trimmed, linesRead, channel, receiverAlive, published,
                    from_sapf, from_sapf_receiver, pty_writer, written, report,
                    sendCalls, writeAttempts >>
    /\ UNCHANGED pollVars
    /\ UNCHANGED editVars
    /\ UNCHANGED dictVars

\* output_sender.send(trimmed) accepted
ReaderSendOk ==
    /\ readerPc = "send"
    /\ receiverAlive
    /\ channel' = Append(channel, trimmed)
    /\ published' = Append(published, trimmed)
    /\ readerPc' = "read"
    /\ UNCHANGED << mainPc, readerExit, trimmed, linesRead, receiverAlive, from_sapf,
                    from_sapf_receiver, pty_writer, written, report, sendCalls,
                    writeAttempts >>
    /\ UNCHANGED pollVars
    /\ UNCHANGED editVars
    /\ UNCHANGED dictVars

\* output_sender.send(trimmed).is_err(): the receiver is gone, break
ReaderSendErr ==
    /\ readerPc = "send"
    /\ ~receiverAlive
    /\ readerPc' = "done"
    /\ readerExit' = "send_failed"
    /\ UNCHANGED << mainPc, trimmed, linesRead, channel, receiverAlive, published,
                    from_sapf, from_sapf_receiver, pty_writer, written, report,
                    sendCalls, writeAttempts >>
    /\ UNCHANGED pollVars
    /\ UNCHANGED editVars
    /\ UNCHANGED dictVars

\* send_to_sapf on the writer state w = [pty_writer, written, report,
\* sendCalls, writeAttempts]; outcome is what the pty does with the write
SendResult(w, code, outcome) ==
    IF w.pty_writer = "Some"
    THEN [ w EXCEPT
             !.sendCalls = @ + 1,
             !.writeAttempts = @ + 1,
             !.written = IF outcome = "write_err" THEN @ ELSE Append(@, code \o << NL >>),
             !.report = CASE outcome = "write_err" -> "write_failed"
                          [] outcome = "flush_err" -> "flush_failed"
                          [] OTHER -> "sent" ]
    ELSE [ w EXCEPT !.sendCalls = @ + 1, !.report = "not_connected" ]

Outcomes == {"ok", "write_err", "flush_err"}

Writer ==
    [ pty_writer |-> pty_writer, written |-> written, report |-> report,
      sendCalls |-> sendCalls, writeAttempts |-> writeAttempts ]

SetWriter(w) ==
    /\ written' = w.written
    /\ report' = w.report
    /\ sendCalls' = w.sendCalls
    /\ writeAttempts' = w.writeAttempts
    /\ UNCHANGED pty_writer

send_to_sapf(code) ==
    \E outcome \in Outcomes : SetWriter(SendResult(Writer, code, outcome))

\* the body of the while let, with the newline left out
AppendLineNoNewline(log, line) ==
    IF Trim(line) # << >> THEN log \o line ELSE log

\* the body of the while let: a non-blank line is pushed, then '\n'
AppendLine(log, line) ==
    IF Trim(line) # << >> THEN log \o line \o << NL >> ELSE log

\* update_output that stops polling once the reader has finished
UpdateOutputBeginSkipsClosed ==
    /\ mainPc = "frame"
    /\ mainPc' = IF from_sapf_receiver = "Some" /\ readerPc # "done"
                 THEN "polling" ELSE "keys"
    /\ UNCHANGED << readerPc, readerExit, trimmed, linesRead, channel, receiverAlive,
                    published, from_sapf, from_sapf_receiver, pty_writer, written,
                    report, sendCalls, writeAttempts >>
    /\ pollDepth' = Len(channel)
    /\ pollRemoved' = 0
    /\ UNCHANGED editVars
    /\ UNCHANGED dictVars

\* update_output entered: the receiver is looked up
UpdateOutputBegin ==
    /\ mainPc = "frame"
    /\ mainPc' = IF from_sapf_receiver = "Some" THEN "polling" ELSE "keys"
    /\ UNCHANGED << readerPc, readerExit, trimmed, linesRead, channel, receiverAlive,
                    published, from_sapf, from_sapf_receiver, pty_writer, written,
                    report, sendCalls, writeAttempts >>
    /\ pollDepth' = Len(channel)
    /\ pollRemoved' = 0
    /\ UNCHANGED editVars
    /\ UNCHANGED dictVars

\* try_recv that hands out the newest queued line first
TryRecvOkNewestFirst ==
    /\ mainPc = "polling"
    /\ channel # << >>
    /\ channel' = SubSeq(channel, 1, Len(channel) - 1)
    /\ from_sapf' = AppendLine(from_sapf, channel[Len(channel)])
    /\ UNCHANGED << mainPc, readerPc, readerExit, trimmed, linesRead, receiverAlive,
                    published, from_sapf_receiver, pty_writer, written, report,
                    sendCalls, writeAttempts >>
    /\ pollRemoved' = pollRemoved + 1
    /\ UNCHANGED pollDepth
    /\ UNCHANGED editVars
    /\ UNCHANGED dictVars

\* one turn of the while let: try_recv returned Ok(line)
TryRecvOk ==
    /\ mainPc = "polling"
    /\ channel # << >>
    /\ channel' = Tail(channel)
    /\ from_sapf' = AppendLine(from_sapf, Head(channel))
    /\ UNCHANGED << mainPc, readerPc, readerExit, trimmed, linesRead, receiverAlive,
                    published, from_sapf_receiver, pty_writer, written, report,
                    sendCalls, writeAttempts >>
    /\ pollRemoved' = pollRemoved + 1
    /\ UNCHANGED pollDepth
    /\ UNCHANGED editVars
    /\ UNCHANGED dictVars

\* try_recv returned Err (Empty or Disconnected): update_output returns
TryRecvErr ==
    /\ mainPc = "polling"
    /\ channel = << >>
    /\ mainPc' = "keys"
    /\ UNCHANGED << readerPc, readerExit, trimmed, linesRead, channel, receiverAlive,
                    published, from_sapf, from_sapf_receiver, pty_writer, written,
                    report, sendCalls, writeAttempts >>
    /\ UNCHANGED pollVars
    /\ UNCHANGED editVars
    /\ UNCHANGED dictVars

\* the Ctrl+Enter branch of handle_key_input on the writer state w: the
\* current line of buf is sent unless it is blank
CtrlEnterSends(w, buf, outcome) ==
    LET code == get_current_line(buf) IN
    IF Trim(code) # << >> THEN SendResult(w, code, outcome) ELSE w

\* a Ctrl+E branch that sends the line before "stop"
CtrlESendsLineFirst(w, buf, outcome1, outcome2) ==
    LET code == get_current_line(buf) IN
    IF Trim(code) # << >>
    THEN SendResult(SendResult(w, code, outcome2), Stop, outcome1)
    ELSE SendResult(w, Stop, outcome1)

\* the Ctrl+E branch of handle_key_input: "stop", then the current line
\* unless it is blank
CtrlESends(w, buf, outcome1, outcome2) ==
    LET code == get_current_line(buf)
        stopped == SendResult(w, Stop, outcome1)
    IN IF Trim(code) # << >> THEN SendResult(stopped, code, outcome2) ELSE stopped

\* handle_key_input, Ctrl+Enter: the current line is sent unless it is blank
KeyCtrlEnter ==
    /\ mainPc = "keys"
    /\ sendCalls < MaxSends
    /\ \E outcome \in Outcomes :
          SetWriter(CtrlEnterSends(Writer, get_current_buffer, outcome))
    /\ UNCHANGED << mainPc, readerPc, readerExit, trimmed, linesRead, channel,
                    receiverAlive, published, from_sapf, from_sapf_receiver >>
    /\ UNCHANGED pollVars
    /\ UNCHANGED editVars
    /\ UNCHANGED dictVars

\* handle_key_input, Ctrl+Period
KeyCtrlPeriod ==
    /\ mainPc = "keys"
    /\ sendCalls < MaxSends
    /\ send_to_sapf(Stop)
    /\ UNCHANGED << mainPc, readerPc, readerExit, trimmed, linesRead, channel,
                    receiverAlive, published, from_sapf, from_sapf_receiver >>
    /\ UNCHANGED pollVars
    /\ UNCHANGED editVars
    /\ UNCHANGED dictVars

\* the rest of update(): the frame is drawn and the next one starts
FrameEnd ==
    /\ mainPc = "keys"
    /\ mainPc' = "frame"
    /\ UNCHANGED << readerPc, readerExit, trimmed, linesRead, channel, receiverAlive,
                    published, from_sapf, from_sapf_receiver, pty_writer, written,
                    report, sendCalls, writeAttempts >>
    /\ UNCHANGED pollVars
    /\ UNCHANGED editVars
    /\ UNCHANGED dictVars

\* the window closes: on_exit runs and the app, with its Receiver, is dropped
OnExit ==
    /\ mainPc = "frame"
    /\ mainPc' = "exited"
    /\ receiverAlive' = FALSE
    /\ channel' = << >>
    /\ UNCHANGED << readerPc, readerExit, trimmed, linesRead, published, from_sapf,
                    from_sapf_receiver, pty_writer, written, report, sendCalls,
                    writeAttempts >>
    /\ UNCHANGED pollVars
    /\ UNCHANGED editVars
    /\ UNCHANGED dictVars

(***************************************************************************)
(* The running application: SapfAsPlainText::new, then frames, with the    *)
(* reader thread alongside                                                 *)
(***************************************************************************)
Buf(content, cursor_pos) == [content |-> content, cursor_pos |-> cursor_pos]

\* with_default_state, or a saved state with some text in its buffer
StartBuffers ==
    { << Buf(<< >>, 0) >> } \cup
    { << Buf(<< "a", NL, " ", NL, "b" >>, c) >> : c \in {0, 3, 5} }

\* SapfDictionary::new over the table t, and the popup fields of
\* with_default_state / from_saved_state
DictInit(t) ==
    /\ categories = t
    /\ \E order \in Orders(DOMAIN t) : all_keywords = build_all_keywords(t, order)
    /\ completions = << >>
    /\ show_completions = FALSE
    /\ hover_info = None

BridgeInit ==
    /\ mainPc = "new"
    /\ readerPc = "none"
    /\ readerExit = "none"
    /\ trimmed = << >>
    /\ linesRead = 0
    /\ channel = << >>
    /\ receiverAlive = TRUE
    /\ published = << >>
    /\ from_sapf = << >>
    /\ from_sapf_receiver = "None"
    /\ pty_writer = "None"
    /\ written = << >>
    /\ report = "none"
    /\ sendCalls = 0
    /\ writeAttempts = 0
    /\ pollDepth = 0
    /\ pollRemoved = 0

Init ==
    /\ BridgeInit
    /\ DictInit(TableOsc)
    /\ buffers \in StartBuffers
    /\ current_buffer_idx = 0
    /\ op = "none"
    /\ before = Buf(<< >>, 0)
    /\ arg = << >>
    /\ result = None

Next ==
    \/ RunSapfSpawn
    \/ RunSapfReturn
    \/ RunSapfFatal
    \/ \E raw \in RawLines : ReaderReadLine(raw)
    \/ ReaderEof
    \/ ReaderErr
    \/ ReaderSendOk
    \/ ReaderSendErr
    \/ UpdateOutputBegin
    \/ TryRecvOk
    \/ TryRecvErr
    \/ KeyCtrlEnter
    \/ KeyCtrlPeriod
    \/ FrameEnd
    \/ OnExit

Spec == Init /\ [][Next]_vars

\* the same application with its frames kept running: run_sapf returns after
\* its sleep, and update() is called again and runs to its end
\* a first start: no saved state, one empty buffer
LiveInit ==
    /\ BridgeInit
    /\ DictInit(TableOsc)
    /\ buffers = << Buf(<< >>, 0) >>
    /\ current_buffer_idx = 0
    /\ op = "none"
    /\ before = Buf(<< >>, 0)
    /\ arg = << >>
    /\ result = None

LiveSpec ==
    /\ LiveInit
    /\ [][Next]_vars
    /\ WF_vars(RunSapfReturn)
    /\ WF_vars(UpdateOutputBegin)
    /\ WF_vars(TryRecvOk)
    /\ WF_vars(TryRecvErr)
    /\ WF_vars(FrameEnd)

(***************************************************************************)
(* The editing operations on their own: the buffer holds any short text    *)
(* and any cursor, and the operations are applied to it                    *)
(***************************************************************************)
Alphabet == {"a", "_", ".", " ", NL, CR}

ABC == << "a", NL, "b", NL, "c" >>
FooBa == << "f", "o", "o", ".", "b", "a" >>
FooBar == << "f", "o", "o", ".", "b", "a", "r" >>
Bar == << "b", "a", "r" >>

Texts == UNION { [1..n -> Alphabet] : n \in 0..MaxLen } \cup { ABC, FooBa }

\* labels a completion popup can offer: an item key, or a category "name."
Completions == { Bar, << "a", "." >> }

EditInit ==
    /\ BridgeInit
    /\ DictInit(TableOsc)
    /\ \E s \in Texts : \E c \in 0..(Len(s) + MaxOver) : buffers = << Buf(s, c) >>
    /\ current_buffer_idx = 0
    /\ op = "none"
    /\ before = Buf(<< >>, 0)
    /\ arg = << >>
    /\ result = None

SetCurrentBuffer(buf) ==
    buffers' = [buffers EXCEPT ![current_buffer_idx + 1] = buf]

GetCurrentLine ==
    /\ op # "panicked"
    /\ op' = "get_current_line"
    /\ before' = get_current_buffer
    /\ arg' = << >>
    /\ result' = Some(get_current_line(get_current_buffer))
    /\ UNCHANGED << buffers, current_buffer_idx >>
    /\ UNCHANGED bridgeVars
    /\ UNCHANGED dictVars

CurrentWordForCompletion ==
    /\ op # "panicked"
    /\ op' = "get_current_word_for_completion"
    /\ before' = get_current_buffer
    /\ arg' = << >>
    /\ result' = get_current_word_for_completion(get_current_buffer.content,
                                                 get_current_buffer.cursor_pos)
    /\ UNCHANGED << buffers, current_buffer_idx >>
    /\ UNCHANGED bridgeVars
    /\ UNCHANGED dictVars

WordAtCursor ==
    /\ op # "panicked"
    /\ op' = "get_word_at_cursor"
    /\ before' = get_current_buffer
    /\ arg' = << >>
    /\ result' = get_word_at_cursor(get_current_buffer.content,
                                    get_current_buffer.cursor_pos)
    /\ UNCHANGED << buffers, current_buffer_idx >>
    /\ UNCHANGED bridgeVars
    /\ UNCHANGED dictVars

ApplyCompletion(completion) ==
    /\ op # "panicked"
    /\ before' = get_current_buffer
    /\ arg' = completion
    /\ result' = None
    /\ IF ApplyPanics(get_current_buffer)
       THEN /\ op' = "panicked"
            /\ UNCHANGED buffers
       ELSE /\ Len(apply_completion(get_current_buffer, completion).content) <= MaxContent
            /\ op' = "apply_completion"
            /\ SetCurrentBuffer(apply_completion(get_current_buffer, completion))
    /\ UNCHANGED current_buffer_idx
    /\ UNCHANGED bridgeVars
    /\ UNCHANGED dictVars

EditNext ==
    \/ GetCurrentLine
    \/ CurrentWordForCompletion
    \/ WordAtCursor
    \/ \E completion \in Completions : ApplyCompletion(completion)

EditSpec == EditInit /\ [][EditNext]_vars

(***************************************************************************)
(* The key presses that send code: sapf is running, the buffer holds a     *)
(* text of several lines, and Ctrl+Enter and Ctrl+E are pressed            *)
(***************************************************************************)
\* one buffer: empty, or three lines, the second blank, with the cursor anywhere
KeyBuffers ==
    { << Buf(<< >>, 0) >> } \cup
    { << Buf(<< "a", NL, " ", NL, "b" >>, c) >> : c \in 0..5 }

\* the state new() leaves after run_sapf, at handle_key_input
KeyInit ==
    /\ mainPc = "keys"
    /\ readerPc = "read"
    /\ readerExit = "none"
    /\ trimmed = << >>
    /\ linesRead = 0
    /\ channel = << >>
    /\ receiverAlive = TRUE
    /\ published = << >>
    /\ from_sapf = << >>
    /\ from_sapf_receiver = "Some"
    /\ pty_writer = "Some"
    /\ written = << >>
    /\ report = "none"
    /\ sendCalls = 0
    /\ writeAttempts = 0
    /\ pollDepth = 0
    /\ pollRemoved = 0
    /\ DictInit(TableOsc)
    /\ buffers \in KeyBuffers
    /\ current_buffer_idx = 0
    /\ op = "none"
    /\ before = Buf(<< >>, 0)
    /\ arg = << >>
    /\ result = None

PressCtrlEnter ==
    /\ mainPc = "keys"
    /\ sendCalls < MaxSends
    /\ op' = "ctrl_enter"
    /\ before' = get_current_buffer
    /\ arg' = get_current_line(get_current_buffer)
    /\ result' = None
    /\ \E outcome \in Outcomes :
          SetWriter(CtrlEnterSends(Writer, get_current_buffer, outcome))
    /\ UNCHANGED << mainPc, readerPc, readerExit, trimmed, linesRead, channel,
                    receiverAlive, published, from_sapf, from_sapf_receiver >>
    /\ UNCHANGED << buffers, current_buffer_idx >>
    /\ UNCHANGED pollVars
    /\ UNCHANGED dictVars

PressCtrlE ==
    /\ mainPc = "keys"
    /\ sendCalls < MaxSends
    /\ op' = "ctrl_e"
    /\ before' = get_current_buffer
    /\ arg' = get_current_line(get_current_buffer)
    /\ result' = None
    /\ \E outcome1, outcome2 \in Outcomes :
          SetWriter(CtrlESends(Writer, get_current_buffer, outcome1, outcome2))
    /\ UNCHANGED << mainPc, readerPc, readerExit, trimmed, linesRead, channel,
                    receiverAlive, published, from_sapf, from_sapf_receiver >>
    /\ UNCHANGED << buffers, current_buffer_idx >>
    /\ UNCHANGED pollVars
    /\ UNCHANGED dictVars

KeyNext ==
    \/ PressCtrlEnter
    \/ PressCtrlE

KeySpec == KeyInit /\ [][KeyNext]_vars

(***************************************************************************)
(* The buffer list: buffers are created, loaded, closed and switched, from *)
(* the buttons of the buffer bar and from the keyboard                     *)
(***************************************************************************)
BufferList(bufs, idx) == [buffers |-> bufs, current_buffer_idx |-> idx]

\* Vec::remove(i), i counted from 0
Remove(bufs, i) == SubSeq(bufs, 1, i) \o SubSeq(bufs, i + 2, Len(bufs))

\* usize::saturating_sub
SaturatingSub(a, b) == IF a >= b THEN a - b ELSE 0

\* usize::min
Min(a, b) == IF a <= b THEN a ELSE b

\* the buffers and the index from_saved_state builds from an AppState
from_saved_state(state) ==
    LET buffer_count == Len(state.buffers) IN
    BufferList(state.buffers,
               Min(state.current_buffer_idx, SaturatingSub(buffer_count, 1)))

create_new_buffer(st) ==
    LET bufs == Append(st.buffers, Buf(<< >>, 0)) IN
    BufferList(bufs, Len(bufs) - 1)

\* load_file_into_new_buffer when a file was picked and read
load_file_into_new_buffer(st, content) ==
    LET bufs == Append(st.buffers, Buf(content, 0)) IN
    BufferList(bufs, Len(bufs) - 1)

\* close_current_buffer that leaves the index where it was
CloseKeepsIndex(st) ==
    IF Len(st.buffers) > 1
    THEN BufferList(Remove(st.buffers, st.current_buffer_idx), st.current_buffer_idx)
    ELSE st

close_current_buffer(st) ==
    IF Len(st.buffers) > 1
    THEN LET bufs == Remove(st.buffers, st.current_buffer_idx) IN
         BufferList(bufs, IF st.current_buffer_idx >= Len(bufs)
                          THEN Len(bufs) - 1
                          ELSE st.current_buffer_idx)
    ELSE st

switch_to_buffer(st, idx) ==
    IF idx < Len(st.buffers) THEN BufferList(st.buffers, idx) ELSE st

next_buffer(st) ==
    IF Len(st.buffers) > 1
    THEN BufferList(st.buffers, (st.current_buffer_idx + 1) % Len(st.buffers))
    ELSE st

prev_buffer(st) ==
    IF Len(st.buffers) > 1
    THEN BufferList(st.buffers, IF st.current_buffer_idx = 0
                                THEN Len(st.buffers) - 1
                                ELSE st.current_buffer_idx - 1)
    ELSE st

\* the two Tab tests of handle_key_input with Alt held: the first looks at
\* Tab and Alt only, the second at Tab, Shift and Alt
TabWithAlt(st, shift) ==
    LET afterFirst == next_buffer(st) IN
    IF shift THEN prev_buffer(afterFirst) ELSE afterFirst

\* the contents a picked file may have
FileContents == { << "a" >> }

\* what a state file may hold
SavedBuffers ==
    UNION { [1..n -> { Buf(<< >>, 0), Buf(<< "a" >>, 0) }] : n \in 0..MaxBuffers }

SavedStates ==
    [ buffers : SavedBuffers, current_buffer_idx : 0..(MaxBuffers + 1) ]

\* the fields of the application that the buffer operations leave alone
BufRest ==
    /\ BridgeInit
    /\ DictInit(TableOsc)
    /\ op = "none"
    /\ before = Buf(<< >>, 0)
    /\ arg = << >>
    /\ result = None

\* with_default_state
BufInit ==
    /\ BufRest
    /\ buffers = << Buf(<< >>, 0) >>
    /\ current_buffer_idx = 0

\* from_saved_state, for any state file that parses
SavedInit ==
    /\ BufRest
    /\ \E state \in SavedStates :
          /\ buffers = from_saved_state(state).buffers
          /\ current_buffer_idx = from_saved_state(state).current_buffer_idx

Here == BufferList(buffers, current_buffer_idx)

\* the application goes to st by the operation called name with argument a
BufStep(name, a, st) ==
    /\ op' = name
    /\ arg' = a
    /\ buffers' = st.buffers
    /\ current_buffer_idx' = st.current_buffer_idx
    /\ UNCHANGED << before, result >>
    /\ UNCHANGED bridgeVars
    /\ UNCHANGED dictVars

CreateNewBuffer ==
    /\ op # "panicked"
    /\ Len(buffers) < MaxBuffers
    /\ BufStep("create_new_buffer", << >>, create_new_buffer(Here))

LoadFileIntoNewBuffer(content) ==
    /\ op # "panicked"
    /\ Len(buffers) < MaxBuffers
    /\ BufStep("load_file_into_new_buffer", content, load_file_into_new_buffer(Here, content))

CloseCurrentBuffer ==
    /\ op # "panicked"
    /\ BufStep("close_current_buffer", << >>, close_current_buffer(Here))

SwitchToBuffer(idx) ==
    /\ op # "panicked"
    /\ BufStep("switch_to_buffer", << idx >>, switch_to_buffer(Here, idx))

NextBuffer ==
    /\ op # "panicked"
    /\ BufStep("next_buffer", << >>, next_buffer(Here))

PrevBuffer ==
    /\ op # "panicked"
    /\ BufStep("prev_buffer", << >>, prev_buffer(Here))

PressAltTab ==
    /\ op # "panicked"
    /\ BufStep("alt_tab", << >>, TabWithAlt(Here, FALSE))

PressShiftAltTab ==
    /\ op # "panicked"
    /\ BufStep("shift_alt_tab", << >>, TabWithAlt(Here, TRUE))

\* get_current_buffer: indexing past the end of the Vec panics
AccessCurrentBuffer ==
    /\ op # "panicked"
    /\ op' = IF current_buffer_idx < Len(buffers) THEN "get_current_buffer" ELSE "panicked"
    /\ arg' = << >>
    /\ UNCHANGED << buffers, current_buffer_idx, before, result >>
    /\ UNCHANGED bridgeVars
    /\ UNCHANGED dictVars

BufNext ==
    \/ CreateNewBuffer
    \/ \E content \in FileContents : LoadFileIntoNewBuffer(content)
    \/ CloseCurrentBuffer
    \/ \E idx \in 0..MaxBuffers : SwitchToBuffer(idx)
    \/ NextBuffer
    \/ PrevBuffer
    \/ PressAltTab
    \/ PressShiftAltTab
    \/ AccessCurrentBuffer

BufSpec == BufInit /\ [][BufNext]_vars

SavedSpec == SavedInit /\ [][BufNext]_vars

(***************************************************************************)
(* The dictionary and the completion popup: any of the tables is loaded,   *)
(* the buffer holds a short text, and the queries are applied              *)
(***************************************************************************)
\* the query trigger_completions would make if it never looked at the buffer
TriggerQueryAlwaysEmpty(buf) == << >>

\* the argument trigger_completions hands to get_completions
TriggerQuery(buf) ==
    LET current_word == get_current_word_for_completion(buf.content, buf.cursor_pos) IN
    IF current_word # None
    THEN IF current_word.val # << >> THEN current_word.val ELSE << >>
    ELSE << >>

DictTexts ==
    { << >>, << "a" >>, << "a", ".", "b" >>, << "o", "s", "c", ".", "s", "i" >>,
      << "a", " " >>, << "c" >> }

Queries ==
    { << >>, << "a" >>, << "a", "b" >>, << "o" >>, Osc, << "c" >>,
      << "a", "." >>, << "a", ".", "b", ".", "c" >>, << "a", ".", " ", "b", " " >>,
      << "a", "b", ".", "b" >>, << "o", "s", "c", ".", "s", "i" >>, << "c", ".", "a" >> }

Words ==
    { << >>, Osc, Sine, << "o", "s" >>, NameA, NameAB, KeyA_, KeyBdotC, << "c" >> }

DictSpecInit ==
    /\ BridgeInit
    /\ \E t \in Tables : DictInit(t)
    /\ \E s \in DictTexts : \E c \in 0..(Len(s) + 1) : buffers = << Buf(s, c) >>
    /\ current_buffer_idx = 0
    /\ op = "none"
    /\ before = Buf(<< >>, 0)
    /\ arg = << >>
    /\ result = None

GetCompletions(current_input) ==
    /\ op' = "get_completions"
    /\ before' = get_current_buffer
    /\ arg' = current_input
    /\ \E catOrder \in Orders(DOMAIN categories) :
         \E keyOrder \in Orders(DOMAIN all_keywords) :
           result' = Some(get_completions(categories, all_keywords, current_input,
                                          catOrder, keyOrder))
    /\ UNCHANGED << buffers, current_buffer_idx >>
    /\ UNCHANGED bridgeVars
    /\ UNCHANGED dictVars

GetHoverInfo(word) ==
    /\ op' = "get_hover_info"
    /\ before' = get_current_buffer
    /\ arg' = word
    /\ result' = get_hover_info(categories, all_keywords, word)
    /\ UNCHANGED << buffers, current_buffer_idx >>
    /\ UNCHANGED bridgeVars
    /\ UNCHANGED dictVars

TriggerCompletions ==
    /\ op' = "trigger_completions"
    /\ before' = get_current_buffer
    /\ arg' = TriggerQuery(get_current_buffer)
    /\ result' = None
    /\ \E catOrder \in Orders(DOMAIN categories) :
         \E keyOrder \in Orders(DOMAIN all_keywords) :
           completions' = get_completions(categories, all_keywords,
                                          TriggerQuery(get_current_buffer),
                                          catOrder, keyOrder)
    /\ show_completions' = (completions' # << >>)
    /\ UNCHANGED << categories, all_keywords, hover_info >>
    /\ UNCHANGED << buffers, current_buffer_idx >>
    /\ UNCHANGED bridgeVars

\* update_completions_and_hints: the hint for the word under the cursor
UpdateCompletionsAndHints ==
    /\ op' = "update_completions_and_hints"
    /\ before' = get_current_buffer
    /\ arg' = << >>
    /\ result' = None
    /\ LET found == get_word_at_cursor(get_current_buffer.content,
                                       get_current_buffer.cursor_pos)
       IN hover_info' = IF found # None
                        THEN get_hover_info(categories, all_keywords, found.val[1])
                        ELSE None
    /\ UNCHANGED << categories, all_keywords, completions, show_completions >>
    /\ UNCHANGED << buffers, current_buffer_idx >>
    /\ UNCHANGED bridgeVars

DictNext ==
    \/ \E current_input \in Queries : GetCompletions(current_input)
    \/ \E word \in Words : GetHoverInfo(word)
    \/ TriggerCompletions
    \/ UpdateCompletionsAndHints

DictSpec == DictSpecInit /\ [][DictNext]_vars

(***************************************************************************)
(* Properties of the process bridge                                        *)
(***************************************************************************)
\* C1: in every state the lines of the display log are, in order, a prefix
\* of the lines the reader published, whatever the interleaving of the reader
\* thread and update_output.
C1_OrderPreserved == IsPrefix(LogLines(from_sapf), published)

\* two different lines were published and both are displayed, in that order
C1_Witness ==
    /\ Len(published) >= 2
    /\ published[1] # published[2]
    /\ LogLines(from_sapf) = published

\* C2: once the reader has ended on end-of-stream, an update_output call that
\* returns has put every published line into the display log, and once the
\* queue is empty the display log never changes again.
C2_DrainAfterEof ==
    [][ readerExit = "eof" =>
          /\ (mainPc # "keys" /\ mainPc' = "keys" => LogLines(from_sapf') = published')
          /\ (channel = << >> => from_sapf' = from_sapf) ]_vars

\* the reader has ended on end-of-stream with two lines still queued, and
\* update_output is draining
C2_Witness ==
    /\ readerExit = "eof"
    /\ readerPc = "done"
    /\ mainPc = "polling"
    /\ Len(channel) >= 2
    /\ from_sapf = << >>

\* C3: a send_to_sapf call made after the reader saw end-of-stream, or
\* before the bridge was started, writes nothing and reports "not connected".
C3_ClosedSendIsNoop ==
    [][ (readerExit = "eof" \/ pty_writer = "None") /\ sendCalls' = sendCalls + 1 =>
          /\ report' = "not_connected"
          /\ written' = written
          /\ writeAttempts' = writeAttempts ]_vars

\* C4: after a write failure, a flush failure or a reader transport error,
\* the next send_to_sapf call reports "not connected" and attempts no write.
C4_DisconnectedAfterFailure ==
    [][ /\ (report \in {"write_failed", "flush_failed"} \/ readerExit = "error")
        /\ sendCalls' = sendCalls + 1
        => /\ report' = "not_connected"
           /\ writeAttempts' = writeAttempts ]_vars

\* C5: the reader is started once, by run_sapf from the constructor; once its
\* loop has ended it stays ended, reads nothing and publishes nothing more.
C5_NoRetry ==
    [][ /\ (readerPc = "none" /\ readerPc' # "none" => mainPc = "new")
        /\ (mainPc # "new" => mainPc' # "new")
        /\ (readerPc # "none" => readerPc' # "none")
        /\ (readerExit # "none" =>
              /\ readerPc = "done"
              /\ readerPc' = "done"
              /\ readerExit' = readerExit
              /\ published' = published
              /\ linesRead' = linesRead) ]_vars

\* the reader has ended after publishing, and the application goes on sending
C5_Witness ==
    /\ readerPc = "done"
    /\ readerExit \in {"eof", "error"}
    /\ Len(published) >= 1
    /\ mainPc = "keys"
    /\ sendCalls >= 1

(***************************************************************************)
(* Properties of line extraction and completion                            *)
(***************************************************************************)
\* the running offset of line i: every earlier line counts its length plus one
RECURSIVE LineOffset(_, _)
LineOffset(lines, i) ==
    IF i <= 1 THEN 0 ELSE LineOffset(lines, i - 1) + Len(lines[i - 1]) + 1

Includes(lines, i, cursor) ==
    /\ LineOffset(lines, i) <= cursor
    /\ cursor <= LineOffset(lines, i) + Len(lines[i]) + 1

\* the byte offset at which line i of s begins: 0, or just after the
\* (i - 1)-th "\n"
TrueLineStart(s, i) ==
    IF i = 1 THEN 0
    ELSE CHOOSE q \in 1..Len(s) :
            s[q] = NL /\ Cardinality({ r \in 1..q : s[r] = NL }) = i - 1

\* C6: get_current_line with the cursor on the first character of a line
\* returns that line; on "a\nb\nc" with the cursor on 'b' it returns "b".
C6_LineAtCursorStart ==
    op = "get_current_line" =>
        \A i \in 1..Len(Lines(before.content)) :
            /\ Lines(before.content)[i] # << >>
            /\ TrueLineStart(before.content, i) = before.cursor_pos
            => result.val = Lines(before.content)[i]

\* C7: get_current_line always returns a line: the last line when no line
\* includes the cursor, the final line when the cursor is at the end of the
\* text, and the empty string for an empty text.
C7_FallbackToLastLine ==
    op = "get_current_line" =>
        LET lines == Lines(before.content)
            cursor == before.cursor_pos
        IN /\ result.tag = "Some"
           /\ (lines # << >> /\ (\A i \in 1..Len(lines) : ~Includes(lines, i, cursor))
                 => result.val = lines[Len(lines)])
           /\ (lines # << >> /\ cursor = Len(before.content)
                 => result.val = lines[Len(lines)])
           /\ (lines = << >> => result.val = << >>)
           /\ (before.content = << >> => result.val = << >>)

\* no line includes the cursor, and the last line, which differs from the
\* first, was returned
C7_Witness ==
    /\ op = "get_current_line"
    /\ Len(Lines(before.content)) >= 2
    /\ \A i \in 1..Len(Lines(before.content)) :
          ~Includes(Lines(before.content), i, before.cursor_pos)
    /\ Lines(before.content)[1] # Lines(before.content)[Len(Lines(before.content))]
    /\ result.val = Lines(before.content)[Len(Lines(before.content))]

\* C8: get_current_line returns the first line, in order, whose range under
\* the running offset satisfies start <= cursor <= end + 1; a cursor one past
\* a line's end yields that line, not the next one.
C8_FirstIncludingLine ==
    op = "get_current_line" =>
        LET lines == Lines(before.content)
            cursor == before.cursor_pos
        IN \A i \in 1..Len(lines) :
              /\ Includes(lines, i, cursor)
              /\ \A j \in 1..(i - 1) : ~Includes(lines, j, cursor)
              => result.val = lines[i]

\* the cursor is one past the end of the first line, where the second,
\* different, line begins, and the first line was returned
C8_Witness ==
    /\ op = "get_current_line"
    /\ Len(Lines(before.content)) >= 2
    /\ before.cursor_pos = Len(Lines(before.content)[1]) + 1
    /\ Lines(before.content)[1] # Lines(before.content)[2]
    /\ Lines(before.content)[2] # << >>
    /\ result.val = Lines(before.content)[1]

\* C9 as stated: apply_completion of "bar" on "foo.ba" with the cursor at the
\* end yields "foo.bar" with the cursor at 7.
C9_KeepsQualifier ==
    op = "apply_completion" /\ before = Buf(FooBa, 6) /\ arg = Bar
        => get_current_buffer = Buf(FooBar, 7)

\* C9 as amended: apply_completion of "bar" on "foo.ba" with the cursor at
\* the end yields "bar" with the cursor at 3; whenever the text scanned back
\* from the cursor holds a '.', the qualifier before the '.' is replaced along
\* with the item prefix.
C9_ReplacesQualifier ==
    op = "apply_completion" =>
        LET w == get_current_word_for_completion(before.content, before.cursor_pos)
            rest == SubSeq(before.content, before.cursor_pos + 1, Len(before.content))
        IN /\ (before = Buf(FooBa, 6) /\ arg = Bar => get_current_buffer = Buf(Bar, 3))
           /\ (w.tag = "Some" /\ (\E k \in 1..Len(w.val) : w.val[k] = ".")
                 => /\ get_current_buffer.content =
                         SubSeq(before.content, 1, before.cursor_pos - Len(w.val))
                           \o arg \o rest
                    /\ \A k \in 1..(get_current_buffer.cursor_pos - Len(arg)) :
                          get_current_buffer.content[k] = before.content[k]
                    /\ get_current_buffer.cursor_pos = before.cursor_pos - Len(w.val) + Len(arg))

\* "bar" was applied to "foo.ba" with the cursor at the end
C9_Witness ==
    /\ op = "apply_completion"
    /\ before = Buf(FooBa, 6)
    /\ arg = Bar
    /\ get_current_buffer = Buf(Bar, 3)

HasDot(s) == \E i \in 1..Len(s) : s[i] = "."

\* the number of places of the sequence r that hold x
Count(r, x) == Cardinality({ i \in 1..Len(r) : r[i] = x })

CategoryCandidates(q) ==
    { [label |-> name \o << "." >>, documentation |-> categories[name].description] :
        name \in { n \in DOMAIN categories : IsPrefix(q, n) } }

SymbolCandidates(q) ==
    { [label |-> k, documentation |-> all_keywords[k]] :
        k \in { x \in DOMAIN all_keywords : IsPrefix(q, x) } }

\* for "<category>.<rest>": the items of that category starting with <rest>
ItemCandidates(q) ==
    LET d == CHOOSE i \in 1..Len(q) : q[i] = "." /\ \A j \in 1..(i - 1) : q[j] # "."
        c == SubSeq(q, 1, d - 1)
        rest == Trim(SubSeq(q, d + 1, Len(q)))
    IN IF c \in DOMAIN categories
       THEN { [label |-> k, documentation |-> categories[c].items[k]] :
                k \in { x \in DOMAIN categories[c].items : IsPrefix(rest, x) } }
       ELSE {}

IsCategoryCandidate(x) == \E name \in DOMAIN categories : x.label = name \o << "." >>

IsSymbolCandidate(x) == x.label \in DOMAIN all_keywords

\* C11: for a query q without '.', get_completions returns one candidate
\* "<name>." for each category whose name starts with q, one candidate for
\* each key of the flattened map that starts with q, and nothing else.
C11_UnqualifiedExact ==
    (op = "get_completions" /\ ~HasDot(arg)) =>
        LET r == result.val
            cats == CategoryCandidates(arg)
            syms == SymbolCandidates(arg)
        IN /\ \A i \in 1..Len(r) : r[i] \in cats \cup syms
           /\ \A x \in cats \cup syms :
                 Count(r, x) = (IF x \in cats THEN 1 ELSE 0) + (IF x \in syms THEN 1 ELSE 0)

\* the query "a" against the two-category table: both categories and both
\* keys beginning with "a" came back
C11_Witness ==
    /\ op = "get_completions"
    /\ categories = TableTwo
    /\ arg = << "a" >>
    /\ Len(result.val) = 4

\* C12: a query holding a '.' is cut at its first '.'; when the part before
\* it is exactly a category name every candidate is an item of that category
\* whose key starts with the trimmed part after it and carries that item's
\* documentation; when it is not a category name the result is empty.
C12_QualifiedWithinCategory ==
    (op = "get_completions" /\ HasDot(arg)) =>
        LET d == CHOOSE i \in 1..Len(arg) :
                    arg[i] = "." /\ \A j \in 1..(i - 1) : arg[j] # "."
            category_prefix == SubSeq(arg, 1, d - 1)
            item_prefix == SubSeq(arg, d + 1, Len(arg))
            r == result.val
        IN IF category_prefix \in DOMAIN categories
           THEN \A i \in 1..Len(r) :
                   /\ r[i].label \in DOMAIN categories[category_prefix].items
                   /\ IsPrefix(Trim(item_prefix), r[i].label)
                   /\ r[i].documentation = categories[category_prefix].items[r[i].label]
           ELSE r = << >>

\* "a.b.c" is cut into "a" and "b.c", and the item "b.c" of "a" came back
C12_Witness ==
    /\ op = "get_completions"
    /\ categories = TableTwo
    /\ arg = << "a", ".", "b", ".", "c" >>
    /\ result = Some(<< [label |-> KeyBdotC, documentation |-> << "item b.c" >>] >>)

\* C13: get_hover_info returns Some exactly when the word is a category name
\* or a key of the flattened map; for a category name the category's
\* description is returned even if the word is also a key; a prefix of a name
\* or key that is not itself one gets None.
C13_HoverExactMatch ==
    op = "get_hover_info" =>
        /\ (result # None) <=> (arg \in DOMAIN categories \cup DOMAIN all_keywords)
        /\ arg \in DOMAIN categories => result = Some(categories[arg].description)
        /\ (arg \notin DOMAIN categories /\ arg \in DOMAIN all_keywords)
              => result = Some(all_keywords[arg])

\* "ab" is a category name and an item key: the category's description won
C13_Witness ==
    /\ op = "get_hover_info"
    /\ categories = TableTwo
    /\ arg = NameAB
    /\ arg \in DOMAIN all_keywords
    /\ result = Some(<< "category ab" >>)

\* C14: with the table {"osc": {"oscillators", {"sine": "sine generator"}}},
\* get_hover_info("sine") returns None and get_hover_info("osc") returns
\* Some("oscillators").
C14_NestedSymbolHasNoHover ==
    (op = "get_hover_info" /\ categories = TableOsc) =>
        /\ arg = Sine => result = None
        /\ arg = Osc => result = Some(<< "oscillators" >>)

\* C14 as amended: with that table get_hover_info("sine") returns
\* Some("sine generator"), the item being in the flattened map, and
\* get_hover_info("osc") returns Some("oscillators").
C14_NestedSymbolHasHover ==
    (op = "get_hover_info" /\ categories = TableOsc) =>
        /\ arg = Sine => result = Some(<< "sine generator" >>)
        /\ arg = Osc => result = Some(<< "oscillators" >>)

C14_Witness ==
    /\ op = "get_hover_info"
    /\ categories = TableOsc
    /\ arg = Sine
    /\ result.tag = "Some"

\* C15: in the result for a query without '.', every category candidate
\* stands before every candidate taken from the flattened map.
C15_CategoriesFirst ==
    (op = "get_completions" /\ ~HasDot(arg)) =>
        LET r == result.val IN
        \A i, j \in 1..Len(r) :
            (IsCategoryCandidate(r[i]) /\ IsSymbolCandidate(r[j])) => i < j

\* the empty query against the two-category table: two categories, three keys
C15_Witness ==
    /\ op = "get_completions"
    /\ categories = TableTwo
    /\ arg = << >>
    /\ Len(result.val) = 5
    /\ IsCategoryCandidate(result.val[2])
    /\ IsSymbolCandidate(result.val[3])

ItemKeys(c) == DOMAIN categories[c].items

Flattened ==
    /\ DOMAIN all_keywords = UNION { ItemKeys(c) : c \in DOMAIN categories }
    /\ \A k \in DOMAIN all_keywords :
          /\ Cardinality({ c \in DOMAIN categories : k \in ItemKeys(c) }) = 1
          /\ \A c \in DOMAIN categories :
                k \in ItemKeys(c) => all_keywords[k] = categories[c].items[k]

PrefixBefore(buf) ==
    IF buf.cursor_pos > Len(buf.content) THEN << >>
    ELSE LET ok(i) == IsAsciiAlphanumeric(buf.content[i]) \/ buf.content[i] \in {"_", "."}
             start == CHOOSE n \in 0..buf.cursor_pos :
                         /\ \A i \in (n + 1)..buf.cursor_pos : ok(i)
                         /\ n > 0 => ~ok(n)
         IN SubSeq(buf.content, start + 1, buf.cursor_pos)

\* C20: trigger_completions queries the dictionary with the prefix before
\* the cursor, or with "" when there is none; the empty query lists every
\* category and every key of the flattened map; afterwards the popup is
\* shown exactly when there is a candidate.
C20_TriggerQueriesPrefix ==
    op = "trigger_completions" =>
        LET q == PrefixBefore(before)
            expected == IF HasDot(q)
                        THEN ItemCandidates(q)
                        ELSE CategoryCandidates(q) \cup SymbolCandidates(q)
        IN /\ arg = q
           /\ { completions[i] : i \in 1..Len(completions) } = expected
           /\ q = << >> =>
                 Len(completions) = Cardinality(DOMAIN categories)
                                      + Cardinality(DOMAIN all_keywords)
           /\ show_completions <=> (completions # << >>)

\* nothing precedes the cursor in "a.b" at 0: the whole table is offered
C20_Witness ==
    /\ op = "trigger_completions"
    /\ categories = TableTwo
    /\ before = Buf(<< "a", ".", "b" >>, 0)
    /\ Len(completions) = 5
    /\ show_completions

(***************************************************************************)
(* Properties of the reader loop and of update_output                      *)
(***************************************************************************)
IsBlank(line) == \A i \in 1..Len(line) : IsWhitespace(line[i])

\* C17: the reader publishes a line only if something is left of it after
\* trimming, and its loop ends on a zero-length read and on a read error: no
\* element of the queue, no published line and no line of the display log is
\* blank, and after either break the reader is done.
C17_NoBlankLinePublished ==
    /\ \A i \in 1..Len(channel) : ~IsBlank(channel[i])
    /\ \A i \in 1..Len(published) : ~IsBlank(published[i])
    /\ \A i \in 1..Len(LogLines(from_sapf)) : ~IsBlank(LogLines(from_sapf)[i])
    /\ readerExit \in {"eof", "error"} => readerPc = "done"

\* two lines were read, the second blank: only the first was published, and
\* the reader went on to end at the end of the stream
C17_Witness ==
    /\ linesRead = 2
    /\ trimmed = << >>
    /\ Len(published) = 1
    /\ readerExit = "eof"
    /\ readerPc = "done"

\* C18: a call of update_output removes at most the lines that were in the
\* queue when it began, also when the reader publishes while it runs.
C18_BoundedByDepthAtCall == pollRemoved <= pollDepth

\* the lines of ls, each followed by one newline
RECURSIVE FlattenNL(_)
FlattenNL(ls) ==
    IF ls = << >> THEN << >>
    ELSE Head(ls) \o << NL >> \o FlattenNL(Tail(ls))

\* the display log holds, once each and each followed by one newline, the
\* published lines that have left the queue
Delivered ==
    IF mainPc # "exited"
    THEN from_sapf = FlattenNL(SubSeq(published, 1, Len(published) - Len(channel)))
    ELSE \E n \in 0..Len(published) : from_sapf = FlattenNL(SubSeq(published, 1, n))

\* C19: every published line is appended to the display log exactly once,
\* followed by one newline, and while the frames keep running every published
\* line eventually is in the log.
C19_EventualLosslessDelivery ==
    /\ []Delivered
    /\ \A n \in 1..MaxLines :
          (Len(published) >= n) ~> (mainPc = "exited" \/ Len(LogLines(from_sapf)) >= n)

\* both lines read were published and are in the log, the queue is empty
C19_Witness ==
    /\ published = << << "a" >>, << " ", "b" >> >>
    /\ channel = << >>
    /\ from_sapf = << "a", NL, " ", "b", NL >>
    /\ mainPc = "keys"

(***************************************************************************)
(* Properties of the word scans                                            *)
(***************************************************************************)
IsWordByte(c) == c \in AlnumChars \/ c = "_"

IsPrefixByte(c) == IsWordByte(c) \/ c = "."

\* C21: get_word_at_cursor returns None exactly when the offset is past the
\* end of the text or neither the byte before the offset nor the byte at it
\* is a word byte; otherwise it returns (word, start, end), the maximal run of
\* word bytes around the offset: start <= offset <= end, start < end.
C21_WordAtCursor ==
    op = "get_word_at_cursor" =>
        LET text == before.content
            o == before.cursor_pos
            wordBefore == o >= 1 /\ o <= Len(text) /\ IsWordByte(text[o])
            wordAt == o < Len(text) /\ IsWordByte(text[o + 1])
        IN /\ (result.tag = "None") <=> (o > Len(text) \/ (~wordBefore /\ ~wordAt))
           /\ result.tag = "Some" =>
                LET word == result.val[1]
                    start == result.val[2]
                    end == result.val[3]
                IN /\ start <= o /\ o <= end /\ start < end /\ end <= Len(text)
                   /\ word = SubSeq(text, start + 1, end)
                   /\ \A i \in (start + 1)..end : IsWordByte(text[i])
                   /\ start > 0 => ~IsWordByte(text[start])
                   /\ end < Len(text) => ~IsWordByte(text[end + 1])

\* in " a_" with the cursor between 'a' and '_' the word is "a_", bytes 1..3
C21_Witness ==
    /\ op = "get_word_at_cursor"
    /\ before = Buf(<< " ", "a", "_" >>, 2)
    /\ result = Some(<< << "a", "_" >>, 1, 3 >>)

\* C22: get_current_word_for_completion returns the longest piece of text
\* ending at the offset made of letters, digits, '_' and '.', and None when
\* the byte before the offset is not one of these, when the offset is 0 and
\* when it is past the end of the text; it never returns Some("").
C22_PrefixBeforeCursor ==
    op = "get_current_word_for_completion" =>
        LET text == before.content
            o == before.cursor_pos
        IN /\ (result.tag = "None")
                 <=> (o > Len(text) \/ o = 0 \/ ~IsPrefixByte(text[o]))
           /\ result.tag = "Some" =>
                LET w == result.val
                    n == Len(result.val)
                IN /\ n > 0 /\ n <= o
                   /\ w = SubSeq(text, o - n + 1, o)
                   /\ \A i \in 1..n : IsPrefixByte(w[i])
                   /\ o - n > 0 => ~IsPrefixByte(text[o - n])

\* the whole of "a._" precedes the cursor
C22_Witness ==
    /\ op = "get_current_word_for_completion"
    /\ before = Buf(<< "a", ".", "_" >>, 3)
    /\ result = Some(<< "a", ".", "_" >>)

(***************************************************************************)
(* Properties of the key presses                                           *)
(***************************************************************************)
\* the lines a step hands to the pty writer
NewlyWritten == SubSeq(written', Len(written) + 1, Len(written'))

\* C23: Ctrl+Enter makes one send_to_sapf call with the current line, and
\* none when that line is blank; Ctrl+E sends "stop" first and then, in a
\* second call, the current line unless it is blank.
C23_ExecuteForwardsLine ==
    [][ LET code == get_current_line(get_current_buffer)
            blank == IsBlank(code)
            line == code \o << NL >>
            stop == << "s", "t", "o", "p", NL >>
        IN /\ IsPrefix(written, written')
           /\ op' = "ctrl_enter" =>
                /\ sendCalls' = sendCalls + (IF blank THEN 0 ELSE 1)
                /\ NewlyWritten \in (IF blank THEN { << >> } ELSE { << >>, << line >> })
                /\ (~blank /\ report' # "write_failed") => NewlyWritten = << line >>
           /\ op' = "ctrl_e" =>
                /\ sendCalls' = sendCalls + (IF blank THEN 1 ELSE 2)
                /\ NewlyWritten \in
                     (IF blank THEN { << >>, << stop >> }
                      ELSE { << >>, << stop >>, << line >>, << stop, line >> })
                /\ Len(NewlyWritten) = writeAttempts' - writeAttempts
                     => NewlyWritten = (IF blank THEN << stop >> ELSE << stop, line >>)
      ]_vars

\* Ctrl+E on the line "b": "stop" and then "b" were written
C23_Witness ==
    /\ op = "ctrl_e"
    /\ before = Buf(<< "a", NL, " ", NL, "b" >>, 5)
    /\ written = << << "s", "t", "o", "p", NL >>, << "b", NL >> >>
    /\ sendCalls = 2

(***************************************************************************)
(* Properties of the buffer list                                           *)
(***************************************************************************)
IndexInRange == Len(buffers) >= 1 /\ current_buffer_idx < Len(buffers)

\* C24: from the default state, whatever buffers are created, closed and
\* switched, the buffer list is not empty and current_buffer_idx is below its
\* length; closing the only buffer and switching to an index that is not
\* below the length change neither the list nor the index.
C24_IndexStaysInRange ==
    /\ []IndexInRange
    /\ [][ /\ (op' = "close_current_buffer" /\ Len(buffers) = 1)
                => (buffers' = buffers /\ current_buffer_idx' = current_buffer_idx)
           /\ (op' = "switch_to_buffer" /\ arg'[1] >= Len(buffers))
                => (buffers' = buffers /\ current_buffer_idx' = current_buffer_idx)
         ]_vars

\* the last of three buffers was closed: the index moved down to the new last
C24_Witness ==
    /\ op = "close_current_buffer"
    /\ Len(buffers) = 2
    /\ current_buffer_idx = 1
    /\ buffers[2] = Buf(<< "a" >>, 0)

\* C25: right after from_saved_state, whatever the state file held,
\* current_buffer_idx is below the length of the buffer list.
C25_SavedIndexInRange == op = "none" => current_buffer_idx < Len(buffers)

\* C26: with more than one buffer, Shift+Alt+Tab moves to the buffer before
\* the current one, wrapping from the first to the last, and Alt+Tab alone
\* moves to the one after it, wrapping from the last to the first.
C26_TabKeysCycle ==
    [][ Len(buffers) > 1 =>
          /\ op' = "shift_alt_tab" =>
                current_buffer_idx' = (current_buffer_idx + Len(buffers) - 1) % Len(buffers)
          /\ op' = "alt_tab" =>
                current_buffer_idx' = (current_buffer_idx + 1) % Len(buffers)
      ]_vars

====
